---- MODULE Spec2Model ----
(***************************************************************************)
(* The manual-page tooling of the repository:                              *)
(*   documentation/manpages/tool/remove-metadata-and-embed-includes.py     *)
(*   documentation/manpages/tool/handle-missing-name.py                    *)
(*   documentation/manpages/tool/man-pandoc-filter.py                      *)
(*   toolset/Documentation/manpages/tool/man-pandoc-filter.py              *)
(*                                                                         *)
(* A text line is a sequence of tokens (strings); a token is one character *)
(* or one literal the scripts look for as a whole ("[!INCLUDE", "---").    *)
(* A path is a sequence of components, a component a sequence of tokens.   *)
(* Spec runs the two line scripts, FilterSpec the two pandoc filters.      *)
(***************************************************************************)
EXTENDS Integers, Sequences, FiniteSets, TLC

VARIABLES
    script,             \* which script's main runs: "includes" or "name"
    filename,           \* args[1]
    fs,                 \* the file system: path -> list of lines
    gitdirs,            \* the directories that hold a .git directory
    original,           \* what the file at filename held when main started
    pc,                 \* where main is
    stack,              \* the active calls of read_lines_document_file
    lines,              \* main's local `lines`
    tmpExists,          \* whether filename + '.tmp' exists
    tmp,                \* the content of filename + '.tmp'
    tmpOpen,            \* whether main holds it open for writing
    written,            \* how many lines main has written to it
    err,                \* the exception that ended main, "" if none
    profile,            \* which man-pandoc-filter.py runs
    doc,                \* the document tree: a sequence of blocks
    doc0,               \* the tree the first run was given
    passIn,             \* the tree the pass under way was given
    result1,            \* the tree the first run returned
    pass,               \* index of the pass under way in the filter list
    pos,                \* index of the block that pass visits next
    fix_command_name,   \* the module-level flag of fix_space_in_command_names
    fstate,             \* "idle", "running", "done" or "failed"
    ferr,               \* the exception that ended the filter, "" if none
    run                 \* 1: first application, 2: applied again to its result

lineVars == <<script, filename, fs, gitdirs, original, pc, stack, lines,
              tmpExists, tmp, tmpOpen, written, err>>
filterVars == <<profile, doc, doc0, passIn, result1, pass, pos,
                fix_command_name, fstate, ferr, run>>
vars == <<lineVars, filterVars>>

(***************************************************************************)
(* Bounds of the model.                                                    *)
(***************************************************************************)
\* the longest document drawn for the file the line scripts are run on
MaxLen == 3
\* the depth of calls at which the interpreter raises RecursionError; the
\* deepest chain of inclusions without a cycle drawn here is 3 calls
MaxDepth == 4
\* the most blocks of a document drawn for the filters
MaxBlocks == 3

(***************************************************************************)
(* Text helpers: Python's str.strip, os.linesep, os.path.                  *)
(***************************************************************************)
linesep == "\n"

Whitespace == {" ", "\t", "\n", "\r"}

RECURSIVE lstrip(_, _)
lstrip(s, cs) ==
    IF s # <<>> /\ Head(s) \in cs THEN lstrip(Tail(s), cs) ELSE s

RECURSIVE rstrip(_, _)
rstrip(s, cs) ==
    IF s # <<>> /\ s[Len(s)] \in cs
    THEN rstrip(SubSeq(s, 1, Len(s) - 1), cs)
    ELSE s

strip(s, cs) == rstrip(lstrip(s, cs), cs)

dirname(path) == SubSeq(path, 1, Len(path) - 1)

basename(path) == path[Len(path)]

\* the index of the last "." of a file name, 0 if it has none
RECURSIVE rfind_dot(_, _)
rfind_dot(name, i) ==
    IF i = 0 THEN 0
    ELSE IF name[i] = "." THEN i
    ELSE rfind_dot(name, i - 1)

\* os.path.splitext(name)[0]: the extension starts at the last dot, unless
\* only dots come before it
splitext_root(name) ==
    LET dotIndex == rfind_dot(name, Len(name))
    IN  IF dotIndex > 0 /\ \E k \in 1..(dotIndex - 1) : name[k] # "."
        THEN SubSeq(name, 1, dotIndex - 1)
        ELSE name

\* the components of a relative path given as tokens, split at "/"
RECURSIVE split_slash(_, _)
split_slash(toks, cur) ==
    IF toks = <<>> THEN (IF cur = <<>> THEN <<>> ELSE <<cur>>)
    ELSE IF Head(toks) = "/"
         THEN (IF cur = <<>> THEN <<>> ELSE <<cur>>) \o split_slash(Tail(toks), <<>>)
         ELSE split_slash(Tail(toks), Append(cur, Head(toks)))

\* os.path.join(dir, rel) as the file open() then reaches
path_join(dir, rel) ==
    IF rel # <<>> /\ Head(rel) = "/"
    THEN split_slash(rel, <<>>)
    ELSE dir \o split_slash(rel, <<>>)

(***************************************************************************)
(* remove-metadata-and-embed-includes.py                                   *)
(***************************************************************************)
\* '---' + os.linesep
Delim == <<"---", linesep>>

\* '[!INCLUDE' in line
contains_marker(line) ==
    \E i \in 1..(Len(line) - 1) : line[i] = "[" /\ line[i + 1] = "!INCLUDE"

\* the first index >= i whose token is not a space (Len + 1 if none): ' *'
RECURSIVE skip_spaces(_, _)
skip_spaces(s, i) ==
    IF i <= Len(s) /\ s[i] = " " THEN skip_spaces(s, i + 1) ELSE i

\* the first index >= i whose token is t, 0 if none
RECURSIVE find_tok(_, _, _)
find_tok(s, i, t) ==
    IF i > Len(s) THEN 0
    ELSE IF s[i] = t THEN i
    ELSE find_tok(s, i + 1, t)

\* \[!INCLUDE *\[[^\]]+\] *\(([^)]+)\) anchored at i: the group, <<>> if no match
match_at(s, i) ==
    LET a == skip_spaces(s, i + 2)
        b == IF a <= Len(s) /\ s[a] = "[" THEN find_tok(s, a + 1, "]") ELSE 0
        c == IF b > a + 1 THEN skip_spaces(s, b + 1) ELSE 0
        d == IF c > 0 /\ c <= Len(s) /\ s[c] = "(" THEN find_tok(s, c + 1, ")") ELSE 0
    IN  IF i < Len(s) /\ s[i] = "[" /\ s[i + 1] = "!INCLUDE" /\ c > 0 /\ d > c + 1
        THEN SubSeq(s, c + 1, d - 1)
        ELSE <<>>

\* re.search: the leftmost match's group, <<>> if the line has no match
RECURSIVE re_search(_, _)
re_search(s, i) ==
    IF i > Len(s) THEN <<>>
    ELSE IF match_at(s, i) # <<>> THEN match_at(s, i)
    ELSE re_search(s, i + 1)

\* git_root's loop from directory d, with gd the directories holding .git
RECURSIVE git_root_from(_, _)
git_root_from(d, gd) ==
    IF d \in gd THEN [ok |-> TRUE, dir |-> d]
    ELSE IF dirname(d) = <<>> THEN [ok |-> FALSE, dir |-> <<>>]
    ELSE git_root_from(dirname(d), gd)

git_root(file, gd) == git_root_from(dirname(file), gd)

\* the loop that looks for the second '---': its index in ls from i on, 0 if none
RECURSIVE find_second(_, _)
find_second(ls, i) ==
    IF i > Len(ls) THEN 0
    ELSE IF ls[i] = Delim THEN i
    ELSE find_second(ls, i + 1)

\* the optional metadata section; original_lines is not empty
strip_metadata_mutant(original_lines) ==
    IF original_lines[1] = Delim
    THEN LET rest == Tail(original_lines)
             i == find_second(rest, 1)
         IN  SubSeq(rest, (IF i = 0 THEN Len(rest) ELSE i) + 1, Len(rest))
    ELSE original_lines
strip_metadata(original_lines) ==
    IF original_lines[1] = Delim
    THEN LET rest == Tail(original_lines)
             i == find_second(rest, 1)
         IN  IF i = 0 THEN rest ELSE SubSeq(rest, i + 1, Len(rest))
    ELSE original_lines

\* the file a matched directive names, as seen from this_file
file_to_include(this_file, relative_path, gd) ==
    IF Len(relative_path) >= 2 /\ relative_path[1] = "~" /\ relative_path[2] = "/"
    THEN LET root == git_root(this_file, gd)
         IN  [ok |-> root.ok,
              path |-> path_join(root.dir, SubSeq(relative_path, 3, Len(relative_path)))]
    ELSE [ok |-> TRUE, path |-> path_join(dirname(this_file), relative_path)]

\* result.append(line)
append_line_mutant(result, line) == IF line = Delim THEN result ELSE Append(result, line)
append_line(result, line) == Append(result, line)

\* result.extend(read_lines_document_file(...))
extend_result_mutant(result, included) == included \o result
extend_result(result, included) == result \o included

\* a call's frame, entered with the metadata section removed
Frame(this_file, original_lines) ==
    [file |-> this_file, lines |-> strip_metadata(original_lines), i |-> 1,
     result |-> <<>>]

(***************************************************************************)
(* handle-missing-name.py                                                  *)
(***************************************************************************)
\* '# Name' + os.linesep
NameHeadingMutant == <<"#", " ", "NAME", linesep>>
NameHeading == <<"#", " ", "Name", linesep>>

\* '# Description' + os.linesep
DescriptionHeading == <<"#", " ", "Description", linesep>>

\* the loop that skips leading blank lines: the first non-blank index, 0 if none
RECURSIVE first_nonblank(_, _)
first_nonblank(ls, i) ==
    IF i > Len(ls) THEN 0
    ELSE IF Len(strip(ls[i], Whitespace)) # 0 THEN i
    ELSE first_nonblank(ls, i + 1)

\* command_name + ' - ' + lines[0].strip().strip('#') + os.linesep
name_line(this_file, first) ==
    splitext_root(basename(this_file)) \o <<" ", "-", " ">>
        \o strip(strip(first, Whitespace), {"#"}) \o <<linesep>>

\* ok is FALSE when lines[0] raises IndexError
handle_missing_name(this_file, original_lines) ==
    IF \E i \in 1..Len(original_lines) :
            strip(original_lines[i], Whitespace) = <<"#", " ", "Name">>
    THEN [ok |-> TRUE, lines |-> original_lines]
    ELSE LET k == first_nonblank(original_lines, 1)
             ls == IF k = 0 THEN original_lines
                   ELSE SubSeq(original_lines, k, Len(original_lines))
         IN  IF ls = <<>>
             THEN [ok |-> FALSE, lines |-> <<>>]
             ELSE [ok |-> TRUE,
                   lines |-> <<NameHeading, <<linesep>>, name_line(this_file, ls[1]),
                               <<linesep>>, DescriptionHeading, <<linesep>>>>
                             \o Tail(ls)]

(***************************************************************************)
(* The files and documents the line scripts are run on.                    *)
(***************************************************************************)
RepoDir == <<<<"repo">>>>
DocsDir == <<<<"repo">>, <<"docs">>>>
RootFile == <<<<"repo">>, <<"docs">>, <<"foo-bar", ".", "md">>>>
AFile == <<<<"repo">>, <<"docs">>, <<"a", ".", "md">>>>
BFile == <<<<"repo">>, <<"shared">>, <<"b", ".", "md">>>>
DotFile == <<<<"repo">>, <<"docs">>, <<".", "tool", ".", "1", ".", "md">>>>

LText == <<"#", " ", "A", " ", "cool", " ", "tool", linesep>>
LPlain == <<"text", linesep>>
LBlank == <<" ", linesep>>
LName == <<" ", "#", " ", "Name", linesep>>
LHashes == <<"#", "#", " ", "Tool", " ", "#", "#", linesep>>
LDelimEof == <<"---">>
LIncA == <<"[", "!INCLUDE", "[", "x", "]", "(", "a", ".", "md", ")", "]", linesep>>
LIncB == <<"see", " ", "[", "!INCLUDE", " ", "[", "x", "]", " ", "(", "~", "/",
           "shared", "/", "b", ".", "md", ")", "]", linesep>>
LIncRoot == <<"[", "!INCLUDE", "[", "x", "]", "(", "foo-bar", ".", "md", ")", "]", linesep>>
LIncC == <<"[", "!INCLUDE", "[", "x", "]", "(", "c", ".", "md", ")", "]", linesep>>
LBad == <<"[", "!INCLUDE", " ", "x", "]", linesep>>
LBadB == <<"[", "!INCLUDE", "[", "]", "(", "a", ".", "md", ")", linesep>>

SeqUpTo(S, n) == UNION {[1..k -> S] : k \in 0..n}

\* readlines() ends every line but possibly the last with the line separator
Readable(d) == \A i \in 1..(Len(d) - 1) : d[i][Len(d[i])] = linesep

RootLines == {Delim, LDelimEof, LPlain, LIncA, LIncB, LBad}
RootDocs == {d \in SeqUpTo(RootLines, MaxLen) : Readable(d)}

ADocs == {<<>>,
          <<LPlain, LIncB, LText>>,
          <<Delim, LBad, Delim, LText>>,
          <<Delim, LText, LIncB>>,
          <<LText, LBadB>>,
          <<LIncRoot>>,
          <<LText, LIncC>>}

BDocs == {<<>>, <<LHashes>>, <<Delim, LHashes, LDelimEof>>, <<LBad>>}

NameLines == {LText, LPlain, LBlank, LName, LHashes, <<linesep>>}
NameDocs == {d \in SeqUpTo(NameLines, MaxLen) : Readable(d)}

FilterIdle ==
    /\ profile = "none"
    /\ doc = <<>>
    /\ doc0 = <<>>
    /\ passIn = <<>>
    /\ result1 = <<>>
    /\ pass = 0
    /\ pos = 0
    /\ fix_command_name = FALSE
    /\ fstate = "idle"
    /\ ferr = ""
    /\ run = 0

MainStart ==
    /\ original = fs[filename]
    /\ pc = "start"
    /\ stack = <<>>
    /\ lines = <<>>
    /\ tmpExists = FALSE
    /\ tmp = <<>>
    /\ tmpOpen = FALSE
    /\ written = 0
    /\ err = ""

Init ==
    /\ \/ /\ script = "includes"
          /\ filename = RootFile
          /\ \E r \in RootDocs, a \in ADocs :
                \/ fs = (RootFile :> r) @@ (AFile :> a)
                \/ \E b \in BDocs : fs = (RootFile :> r) @@ (AFile :> a) @@ (BFile :> b)
          /\ gitdirs \in {{RepoDir}, {}}
       \/ /\ script = "name"
          /\ filename \in {RootFile, DotFile}
          /\ \E d \in NameDocs : fs = (filename :> d)
          /\ gitdirs = {RepoDir}
    /\ MainStart
    /\ FilterIdle

(***************************************************************************)
(* main of both line scripts, and read_lines_document_file call by call.   *)
(***************************************************************************)
Raise(e) ==
    /\ pc' = "failed"
    /\ err' = e
    /\ stack' = <<>>
    /\ lines' = <<>>

\* the call read_lines_document_file(this_file, ls) from the frames `callers`
Call(callers, this_file, ls) ==
    IF Len(callers) >= MaxDepth THEN Raise("RecursionError")
    ELSE IF ls = <<>> THEN Raise("IndexError")
    ELSE /\ stack' = Append(callers, Frame(this_file, ls))
         /\ pc' = "resolving"
         /\ UNCHANGED <<lines, err>>

\* remove-metadata-and-embed-includes.py, main: open, readlines, the first call
IncludesMain ==
    /\ pc = "start"
    /\ script = "includes"
    /\ Call(<<>>, filename, fs[filename])
    /\ UNCHANGED <<script, filename, fs, gitdirs, original, tmpExists, tmp, tmpOpen,
                   written>>
    /\ UNCHANGED filterVars

Top == stack[Len(stack)]

\* for line in lines: a line without the marker
AppendLine ==
    /\ pc = "resolving"
    /\ Top.i <= Len(Top.lines)
    /\ ~contains_marker(Top.lines[Top.i])
    /\ stack' = [stack EXCEPT ![Len(stack)] =
                    [@ EXCEPT !.result = append_line(@, Top.lines[Top.i]),
                              !.i = @ + 1]]
    /\ UNCHANGED <<script, filename, fs, gitdirs, original, pc, lines, tmpExists, tmp,
                   tmpOpen, written, err>>
    /\ UNCHANGED filterVars

\* what a line with the marker that does not match the pattern does
unparsable_mutant(line) ==
    /\ stack' = [stack EXCEPT ![Len(stack)].i = @ + 1]
    /\ UNCHANGED <<pc, lines, err>>
unparsable(line) == Raise("AssertionError")

\* for line in lines: a line with the marker
IncludeLine ==
    /\ pc = "resolving"
    /\ Top.i <= Len(Top.lines)
    /\ contains_marker(Top.lines[Top.i])
    /\ LET line == Top.lines[Top.i]
           relative_path == re_search(line, 1)
           target == file_to_include(Top.file, relative_path, gitdirs)
       IN  IF relative_path = <<>> THEN unparsable(line)
           ELSE IF ~target.ok THEN Raise("AssertionError")
           ELSE IF target.path \notin DOMAIN fs THEN Raise("FileNotFoundError")
           ELSE Call(stack, target.path, fs[target.path])
    /\ UNCHANGED <<script, filename, fs, gitdirs, original, tmpExists, tmp, tmpOpen,
                   written>>
    /\ UNCHANGED filterVars

\* return result: to the including call, or to main
Return ==
    /\ pc = "resolving"
    /\ Top.i > Len(Top.lines)
    /\ IF Len(stack) > 1
       THEN /\ stack' = [SubSeq(stack, 1, Len(stack) - 1) EXCEPT ![Len(stack) - 1] =
                            [@ EXCEPT !.result = extend_result(@, Top.result),
                                      !.i = @ + 1]]
            /\ UNCHANGED <<pc, lines>>
       ELSE /\ stack' = <<>>
            /\ lines' = Top.result
            /\ pc' = "open_tmp"
    /\ UNCHANGED <<script, filename, fs, gitdirs, original, tmpExists, tmp, tmpOpen,
                   written, err>>
    /\ UNCHANGED filterVars

\* handle-missing-name.py, main: open, readlines, handle_missing_name
NameMain ==
    /\ pc = "start"
    /\ script = "name"
    /\ LET r == handle_missing_name(filename, fs[filename])
       IN  IF r.ok
           THEN /\ lines' = r.lines
                /\ pc' = "open_tmp"
                /\ UNCHANGED <<stack, err>>
           ELSE Raise("IndexError")
    /\ UNCHANGED <<script, filename, fs, gitdirs, original, tmpExists, tmp, tmpOpen,
                   written>>
    /\ UNCHANGED filterVars

\* open(filename + '.tmp', 'w')
OpenTmp ==
    /\ pc = "open_tmp"
    /\ tmpExists' = TRUE
    /\ tmp' = <<>>
    /\ tmpOpen' = TRUE
    /\ written' = 0
    /\ pc' = "write"
    /\ UNCHANGED <<script, filename, fs, gitdirs, original, stack, lines, err>>
    /\ UNCHANGED filterVars

\* where output.write(line) puts the line
write_line_mutant(files, temp, line) ==
    [files |-> [files EXCEPT ![filename] = (IF written = 0 THEN <<>> ELSE @) \o <<line>>],
     temp |-> Append(temp, line)]
write_line(files, temp, line) == [files |-> files, temp |-> Append(temp, line)]

\* output.write(line)
WriteLine ==
    /\ pc = "write"
    /\ written < Len(lines)
    /\ LET w == write_line(fs, tmp, lines[written + 1])
       IN  /\ fs' = w.files
           /\ tmp' = w.temp
    /\ written' = written + 1
    /\ UNCHANGED <<script, filename, gitdirs, original, pc, stack, lines, tmpExists,
                   tmpOpen, err>>
    /\ UNCHANGED filterVars

\* output.write(line) raises (the disk is full): both files are closed
WriteError ==
    /\ pc = "write"
    /\ written < Len(lines)
    /\ tmpOpen' = FALSE
    /\ Raise("OSError")
    /\ UNCHANGED <<script, filename, fs, gitdirs, original, tmpExists, tmp, written>>
    /\ UNCHANGED filterVars

\* the end of the with blocks: the files are closed
CloseTmp ==
    /\ pc = "write"
    /\ written = Len(lines)
    /\ tmpOpen' = FALSE
    /\ pc' = "replace"
    /\ UNCHANGED <<script, filename, fs, gitdirs, original, stack, lines, tmpExists,
                   tmp, written, err>>
    /\ UNCHANGED filterVars

\* os.replace(filename + '.tmp', filename)
Replace ==
    /\ pc = "replace"
    /\ fs' = [fs EXCEPT ![filename] = tmp]
    /\ tmpExists' = FALSE
    /\ tmp' = <<>>
    /\ pc' = "done"
    /\ UNCHANGED <<script, filename, gitdirs, original, stack, lines, tmpOpen,
                   written, err>>
    /\ UNCHANGED filterVars

\* the process is killed: its memory is gone, the files stay as they are
Interrupt ==
    /\ pc \in {"start", "resolving", "open_tmp", "write", "replace"}
    /\ pc' = "killed"
    /\ stack' = <<>>
    /\ tmpOpen' = FALSE
    /\ UNCHANGED <<script, filename, fs, gitdirs, original, lines, tmpExists, tmp,
                   written, err>>
    /\ UNCHANGED filterVars

Next ==
    \/ IncludesMain
    \/ AppendLine
    \/ IncludeLine
    \/ Return
    \/ NameMain
    \/ OpenTmp
    \/ WriteLine
    \/ WriteError
    \/ CloseTmp
    \/ Replace
    \/ Interrupt

Spec == Init /\ [][Next]_vars

(***************************************************************************)
(* Properties of the line scripts, checked under Spec.                     *)
(***************************************************************************)
\* main of the include resolver holds the resolved lines, the file not yet replaced
Resolved == script = "includes" /\ pc \in {"open_tmp", "write", "replace"}

\* main of the name normalizer holds the normalized lines, the file not yet replaced
Normalized == script = "name" /\ pc \in {"open_tmp", "write", "replace"}

IsDirective(line) == contains_marker(line) /\ re_search(line, 1) # <<>>

Malformed(line) == contains_marker(line) /\ re_search(line, 1) = <<>>

TargetOf(f, line) == file_to_include(f, re_search(line, 1), gitdirs)

\* the lines of f that are scanned: those after its metadata section
Scanned(f) == IF fs[f] = <<>> THEN <<>> ELSE strip_metadata(fs[f])

\* the flattening of the inclusion tree below f, written as the recursion the
\* claim describes: each directive line replaced by its file's flattening
RECURSIVE Flattened(_, _)
RECURSIVE Spliced(_, _, _)
Spliced(f, i, fuel) ==
    IF i > Len(Scanned(f)) THEN <<>>
    ELSE (IF IsDirective(Scanned(f)[i])
          THEN Flattened(TargetOf(f, Scanned(f)[i]).path, fuel - 1)
          ELSE <<Scanned(f)[i]>>) \o Spliced(f, i + 1, fuel)
Flattened(f, fuel) == IF fuel = 0 THEN <<>> ELSE Spliced(f, 1, fuel)

\* C1: the lines read_lines_document_file returns for the root are the root's
\* scanned lines in order, each directive line replaced in place by the
\* flattening of the file it names, to any depth.
C1_RecursiveFlattening == Resolved => lines = Flattened(filename, MaxDepth)

\* C1 witness: the root includes a.md between two lines, a.md includes b.md
C1_Witness ==
    /\ Resolved
    /\ original = <<LPlain, LIncA, LIncB>>
    /\ fs[AFile] = <<LPlain, LIncB, LText>>
    /\ BFile \in DOMAIN fs
    /\ fs[BFile] = <<LHashes>>
    /\ lines = <<LPlain, LPlain, LHashes, LText, LHashes>>

NoDirective(d) == \A i \in 1..Len(d) : ~IsDirective(d[i])

\* C2 as claimed: a document without directives is returned exactly as read.
C2_RoundTrip == (Resolved /\ NoDirective(original)) => lines = original

\* C2 as amended: a document without directives whose first line is not the
\* delimiter '---' is returned exactly as read; one that starts with the
\* delimiter comes back as a proper suffix of what was read.
C2_RoundTripWithoutMetadata ==
    (Resolved /\ NoDirective(original)) =>
        IF original[1] # Delim
        THEN lines = original
        ELSE \E k \in 1..Len(original) :
                lines = SubSeq(original, k + 1, Len(original))

\* C2 witness: a document without directives or metadata, a '---' in the middle
C2_Witness ==
    /\ Resolved
    /\ original = <<LPlain, Delim, LPlain>>
    /\ lines = original

\* the files reached from S through the directives of scanned lines
Targets(f) ==
    {TargetOf(f, Scanned(f)[i]).path :
        i \in {j \in 1..Len(Scanned(f)) :
                  IsDirective(Scanned(f)[j]) /\ TargetOf(f, Scanned(f)[j]).ok}}
        \cap DOMAIN fs

RECURSIVE Reach(_, _)
Reach(S, n) ==
    IF n = 0 THEN S ELSE Reach(S \cup UNION {Targets(f) : f \in S}, n - 1)

Included == Reach({filename}, Cardinality(DOMAIN fs))

NoOutput ==
    /\ pc \notin {"open_tmp", "write", "replace", "done"}
    /\ ~tmpExists
    /\ fs[filename] = original

\* C3 as claimed: a malformed marker line anywhere in the root or in a file it
\* includes keeps main from writing anything; said the other way round, main
\* writes only when there is no such line.
C3_AnyMalformedLineAborts ==
    script = "includes" =>
        \/ NoOutput
        \/ ~\E f \in Included : \E i \in 1..Len(fs[f]) : Malformed(fs[f][i])

\* C3 as amended: a malformed marker line among the scanned lines (those left
\* after the metadata section is removed) of the root or of a file it includes
\* keeps main from writing anything: no '.tmp' file, the original untouched;
\* said the other way round, main writes only when there is no such line.
C3_ScannedMalformedLineAborts ==
    script = "includes" =>
        \/ NoOutput
        \/ ~\E f \in Included : \E i \in 1..Len(Scanned(f)) : Malformed(Scanned(f)[i])

\* C3 witness: the malformed line is in the included file, and main has failed
C3_Witness ==
    /\ script = "includes"
    /\ pc = "failed"
    /\ err = "AssertionError"
    /\ original = <<LPlain, LIncA>>
    /\ fs[AFile] = <<LText, LBadB>>
    /\ NoOutput

\* C6 as claimed: without a '# Name' line and with a non-blank line, the
\* result is '# Name', blank, '<command-name> - <T>', blank, '# Description',
\* blank, then the lines after the first non-blank one; T is that line without
\* its leading heading markers and surrounding whitespace.
C6_NameSynthesis ==
    (Normalized
        /\ (\A i \in 1..Len(original) :
                strip(original[i], Whitespace) # <<"#", " ", "Name">>)
        /\ (\E i \in 1..Len(original) : strip(original[i], Whitespace) # <<>>))
    => LET k == CHOOSE i \in 1..Len(original) :
                    /\ strip(original[i], Whitespace) # <<>>
                    /\ \A j \in 1..(i - 1) : strip(original[j], Whitespace) = <<>>
           T == strip(lstrip(strip(original[k], Whitespace), {"#"}), Whitespace)
       IN  lines = << <<"#", " ", "Name", linesep>>,
                      <<linesep>>,
                      splitext_root(basename(filename)) \o <<" ", "-", " ">> \o T
                          \o <<linesep>>,
                      <<linesep>>,
                      <<"#", " ", "Description", linesep>>,
                      <<linesep>> >>
                   \o SubSeq(original, k + 1, Len(original))

\* C7: normalizing what handle_missing_name returned returns it unchanged.
C7_Idempotent ==
    Normalized => handle_missing_name(filename, lines) = [ok |-> TRUE, lines |-> lines]

\* C7 witness: a Name section was synthesized after a skipped blank line
C7_Witness ==
    /\ Normalized
    /\ original = <<LBlank, LPlain, LHashes>>
    /\ Len(lines) = 7
    /\ lines[1] = <<"#", " ", "Name", linesep>>

\* C8: the file at the original path changes in one step only, the rename, taken
\* after every line was written to the '.tmp' file and that file was closed, and
\* it then holds all the new lines; in every other step, failing or interrupted
\* runs included, it keeps the content it had.
C8_AtomicReplace ==
    [][\/ fs'[filename] = fs[filename]
       \/ /\ pc = "replace"
          /\ ~tmpOpen
          /\ tmpExists
          /\ written = Len(lines)
          /\ tmp = lines
          /\ fs'[filename] = lines]_vars

\* C8 witness: the rename has put new content in place
C8_Witness ==
    /\ pc = "done"
    /\ fs[filename] = lines
    /\ lines # original
    /\ ~tmpExists

\* the body of a document as the amended C10 describes it
DelimAfterFirst(d) == {k \in 2..Len(d) : d[k] = Delim}

Body(d) ==
    IF d[1] # Delim THEN d
    ELSE IF DelimAfterFirst(d) = {} THEN SubSeq(d, 2, Len(d))
    ELSE SubSeq(d, (CHOOSE k \in DelimAfterFirst(d) :
                        \A m \in DelimAfterFirst(d) : k <= m) + 1, Len(d))

\* C10 as claimed: a first line '---' with no later '---' line makes the
\* resolver return no lines at all.
C10_ConsumesToEnd ==
    (Resolved /\ original[1] = Delim
        /\ \A k \in 2..Len(original) : original[k] \notin {Delim, LDelimEof})
    => lines = <<>>

\* C10 as amended: a first line '---' with no later '---' line (terminated by
\* the line separator) discards that first line only, and the lines after it
\* are resolved as usual; with a closing line, exactly the lines up to and
\* including the first closing line are discarded.
C10_MetadataSection ==
    /\ \A n \in 1..Len(stack) :
          stack[n].lines = Body(IF n = 1 THEN original ELSE fs[stack[n].file])
    /\ (Resolved /\ \A i \in 1..Len(original) : ~contains_marker(original[i]))
          => lines = Body(original)

\* C10 witness: metadata never closed, everything after the first line returned
C10_Witness ==
    /\ Resolved
    /\ original = <<Delim, LPlain, LDelimEof>>
    /\ lines = <<LPlain, LDelimEof>>

(***************************************************************************)
(* man-pandoc-filter.py, both copies.  An inline element is a record: t its  *)
(* type, c its text (of a Str, and of a Code, whose JSON 'c' is [attr,       *)
(* text]), label the inline content of a Link (whose JSON 'c' is [attr,      *)
(* label, target]).  A Space has no 'c' in the JSON.  The text of a Str or a *)
(* Code is spelled one character a token, markers being one token.  A block  *)
(* is a Header or a Para; the content of a Header is a list of inlines (kind *)
(* "inlines") or, once demote_net_core_1_2 has put a string there, a text    *)
(* (kind "text").                                                            *)
(***************************************************************************)
Str(c) == [t |-> "Str", c |-> c, label |-> <<>>]
Code(text) == [t |-> "Code", c |-> text, label |-> <<>>]
Space == [t |-> "Space", c |-> <<>>, label |-> <<>>]
Link(label) == [t |-> "Link", c |-> <<>>, label |-> label]

Header(level, id, content) ==
    [t |-> "Header", level |-> level, id |-> id, kind |-> "inlines",
     content |-> content, text |-> <<>>]
HeaderOfText(level, id, text) ==
    [t |-> "Header", level |-> level, id |-> id, kind |-> "text",
     content |-> <<>>, text |-> text]
Para(content) ==
    [t |-> "Para", level |-> 0, id |-> <<>>, kind |-> "inlines",
     content |-> content, text |-> <<>>]

Ok(b) == [ok |-> TRUE, err |-> "", block |-> b]
Fail(e, b) == [ok |-> FALSE, err |-> e, block |-> b]

LowerCase == <<"a", "b", "c", "d", "e", "f", "g", "h", "i", "j", "k", "l", "m", "n", "o", "p", "q", "r", "s", "t", "u", "v", "w", "x", "y", "z">>
UpperCase == <<"A", "B", "C", "D", "E", "F", "G", "H", "I", "J", "K", "L", "M", "N", "O", "P", "Q", "R", "S", "T", "U", "V", "W", "X", "Y", "Z">>

upper_char(ch) ==
    IF \E i \in 1..Len(LowerCase) : LowerCase[i] = ch
    THEN UpperCase[CHOOSE i \in 1..Len(LowerCase) : LowerCase[i] = ch]
    ELSE ch

lower_char(ch) ==
    IF \E i \in 1..Len(UpperCase) : UpperCase[i] = ch
    THEN LowerCase[CHOOSE i \in 1..Len(UpperCase) : UpperCase[i] = ch]
    ELSE ch

upper(s) == [i \in 1..Len(s) |-> upper_char(s[i])]
lower(s) == [i \in 1..Len(s) |-> lower_char(s[i])]

\* ' '.join(texts)
RECURSIVE join(_)
join(texts) ==
    IF texts = <<>> THEN <<>>
    ELSE IF Len(texts) = 1 THEN texts[1]
    ELSE texts[1] \o <<" ">> \o join(Tail(texts))

IsStr(x) == x.t = "Str"

\* [x['c'] for x in header_contents if x['t'] == 'Str']
str_texts(contents) ==
    LET strs == SelectSeq(contents, IsStr)
    IN  [i \in 1..Len(strs) |-> strs[i].c]

\* ' '.join([...]).lower()
header_text(contents) == lower(join(str_texts(contents)))

\* iterating a non-empty string as if it held elements raises TypeError
BadContents(b) == b.kind = "text" /\ b.text # <<>>

\* value[0]['c'] == '[!INCLUDE' of a Para; ok is FALSE where it raises
first_is_include(b) ==
    IF b.content = <<>> THEN [ok |-> FALSE, err |-> "IndexError", is |-> FALSE]
    ELSE IF b.content[1].t = "Space" THEN [ok |-> FALSE, err |-> "KeyError", is |-> FALSE]
    ELSE [ok |-> TRUE, err |-> "",
          is |-> b.content[1].t = "Str" /\ b.content[1].c = <<"[", "!INCLUDE">>]

\* documentation: fail_on_includes
fail_on_includes_mutant(b) == Ok(b)
fail_on_includes(b) ==
    IF b.t = "Para"
    THEN IF ~first_is_include(b).ok THEN Fail(first_is_include(b).err, b)
         ELSE IF first_is_include(b).is THEN Fail("AssertionError", b)
         ELSE Ok(b)
    ELSE Ok(b)

\* toolset: remove_includes
remove_includes(b) ==
    IF b.t = "Para"
    THEN IF ~first_is_include(b).ok THEN Fail(first_is_include(b).err, b)
         ELSE IF first_is_include(b).is THEN Ok(Para(<<Str(<<>>)>>))
         ELSE Ok(b)
    ELSE Ok(b)

\* the section names of promote_and_capitalize_sections, per copy
SectionNames(p) ==
    IF p = "toolset"
    THEN {<<"n", "a", "m", "e">>,
     <<"s", "y", "n", "o", "p", "s", "i", "s">>,
     <<"d", "e", "s", "c", "r", "i", "p", "t", "i", "o", "n">>,
     <<"o", "p", "t", "i", "o", "n", "s">>,
     <<"e", "x", "a", "m", "p", "l", "e", "s">>,
     <<"e", "n", "v", "i", "r", "o", "n", "m", "e", "n", "t", " ", "v", "a", "r", "i", "a", "b", "l", "e", "s">>}
    ELSE {<<"n", "a", "m", "e">>,
     <<"s", "y", "n", "o", "p", "s", "i", "s">>,
     <<"d", "e", "s", "c", "r", "i", "p", "t", "i", "o", "n">>,
     <<"a", "r", "g", "u", "m", "e", "n", "t", "s">>,
     <<"o", "p", "t", "i", "o", "n", "s">>,
     <<"e", "x", "a", "m", "p", "l", "e", "s">>,
     <<"e", "n", "v", "i", "r", "o", "n", "m", "e", "n", "t", " ", "v", "a", "r", "i", "a", "b", "l", "e", "s">>,
     <<"s", "e", "e", " ", "a", "l", "s", "o">>}

\* promote_and_capitalize_sections
promote_and_capitalize_sections(p, b) ==
    IF b.t = "Header"
    THEN IF BadContents(b) THEN Fail("TypeError", b)
         ELSE IF header_text(b.content) \in SectionNames(p)
         THEN Ok(Header(1, b.id,
                        [i \in 1..Len(b.content) |->
                            IF b.content[i].t = "Str"
                            THEN Str(upper(b.content[i].c))
                            ELSE b.content[i]]))
         ELSE Ok(b)
    ELSE Ok(b)

\* header_id.startswith('net-core-')
is_net_core(id) == id # <<>> /\ id[1] = "net-core-"

\* demote_net_core_1_2: Header(2, value[1], value[2][0]['c'][1])
demote_net_core_1_2(b) ==
    IF b.t = "Header" /\ is_net_core(b.id)
    THEN IF b.kind = "text"
         THEN (IF b.text = <<>> THEN Fail("IndexError", b) ELSE Fail("TypeError", b))
         ELSE IF b.content = <<>> THEN Fail("IndexError", b)
         ELSE LET first == b.content[1]
              IN  CASE first.t = "Link" -> Ok(Header(2, b.id, first.label))
                    [] first.t = "Code" -> Ok(HeaderOfText(2, b.id, first.c))
                    [] first.t = "Str" ->
                         IF Len(first.c) >= 2
                         THEN Ok(HeaderOfText(2, b.id, <<first.c[2]>>))
                         ELSE Fail("IndexError", b)
                    [] OTHER -> Fail("KeyError", b)
    ELSE Ok(b)

Dotnet == <<"d", "o", "t", "n", "e", "t", " ">>

\* value[i]['c'][1].startswith('dotnet ')
starts_with_dotnet(text) ==
    Len(text) >= Len(Dotnet) /\ SubSeq(text, 1, Len(Dotnet)) = Dotnet

\* value[i]['c'][1].replace(' ', '-')
hyphenated(text) == [i \in 1..Len(text) |-> IF text[i] = " " THEN "-" ELSE text[i]]

\* the flag after a Header with this text was visited
name_flag_mutant(flag, text) == flag \/ text = <<"n", "a", "m", "e">>
name_flag(flag, text) == text = <<"n", "a", "m", "e">>

\* the loop over the elements of a Para while the flag is set
fix_elements(content) ==
    [i \in 1..Len(content) |->
        IF content[i].t = "Code" /\ starts_with_dotnet(content[i].c)
        THEN Str(hyphenated(content[i].c))
        ELSE content[i]]

\* fix_space_in_command_names: the block and the flag after the visit
fix_space_in_command_names(flag, b) ==
    IF b.t = "Header"
    THEN IF BadContents(b) THEN [ok |-> FALSE, err |-> "TypeError", block |-> b, flag |-> flag]
         ELSE [ok |-> TRUE, err |-> "", block |-> b,
               flag |-> name_flag(flag, header_text(b.content))]
    ELSE IF flag /\ b.t = "Para"
    THEN [ok |-> TRUE, err |-> "", block |-> [b EXCEPT !.content = fix_elements(@)],
          flag |-> flag]
    ELSE [ok |-> TRUE, err |-> "", block |-> b, flag |-> flag]

Markers == {<<"[!NOTE]">>, <<"[!IMPORTANT]">>}

\* remove_markers on one inline element
remove_marker(x) == IF x.t = "Str" /\ x.c \in Markers THEN Str(<<>>) ELSE x

\* remove_markers, walked over the inline elements of a block
remove_markers(b) ==
    Ok([b EXCEPT !.content =
            [i \in 1..Len(@) |->
                IF @[i].t = "Link"
                THEN [@[i] EXCEPT !.label = [k \in 1..Len(@) |-> remove_marker(@[k])]]
                ELSE remove_marker(@[i])]])

\* 'c' in e.keys()
has_c(e) == e.t # "Space"

\* remove_references on one Link: ok is FALSE where it raises
remove_reference(x) ==
    IF x.label = <<>> THEN [ok |-> FALSE, err |-> "IndexError", elem |-> x]
    ELSE IF x.label[1].t = "Code" THEN [ok |-> TRUE, err |-> "", elem |-> x.label[1]]
    ELSE IF \E k \in 1..Len(x.label) : x.label[k].t \notin {"Str", "Space"}
    THEN [ok |-> FALSE, err |-> "TypeError", elem |-> x]
    ELSE LET with_c == SelectSeq(x.label, has_c)
         IN  [ok |-> TRUE, err |-> "",
              elem |-> Str(join([k \in 1..Len(with_c) |-> with_c[k].c]))]

\* toolset: remove_references, walked over the inline elements of a block
remove_references(b) ==
    LET links == {i \in 1..Len(b.content) : b.content[i].t = "Link"}
        bad == {i \in links : ~remove_reference(b.content[i]).ok}
    IN  IF bad # {}
        THEN Fail(remove_reference(b.content[CHOOSE i \in bad : \A j \in bad : i <= j]).err, b)
        ELSE Ok([b EXCEPT !.content =
                    [i \in 1..Len(@) |->
                        IF i \in links THEN remove_reference(@[i]).elem ELSE @[i]]])

\* the list main hands to toJSONFilters
Filters(p) ==
    IF p = "toolset"
    THEN <<"remove_includes", "promote_and_capitalize_sections", "demote_net_core_1_2",
           "remove_references">>
    ELSE <<"fail_on_includes", "promote_and_capitalize_sections", "demote_net_core_1_2",
           "fix_space_in_command_names", "remove_markers">>

(***************************************************************************)
(* The documents the filters are run on.                                   *)
(***************************************************************************)
HName == Header(2, <<"name">>, <<Str(<<"N", "a", "m", "e">>)>>)
HOptions == Header(3, <<"options">>, <<Str(<<"O", "p", "t", "i", "o", "n", "s">>)>>)
HSeeAlso == Header(2, <<"see-also">>, <<Str(<<"S", "e", "e">>), Space, Str(<<"a", "l", "s", "o">>)>>)
HNetCore == Header(1, <<"net-core-", "2x">>, <<Link(<<Str(<<".", "N", "E", "T">>), Space, Str(<<"2", ".", "x">>)>>)>>)
PCommand == Para(<<Code(<<"d", "o", "t", "n", "e", "t", " ", "b", "u", "i", "l", "d">>), Space, Str(<<"-">>), Space, Code(<<"m", "s", "b", "u", "i", "l", "d">>)>>)
PLinked == Para(<<Link(<<Code(<<"d", "o", "t", "n", "e", "t", " ", "r", "u", "n">>)>>), Space, Str(<<"r", "u", "n", "s">>)>>)
PSeeLink == Para(<<Str(<<"S", "e", "e">>), Space, Link(<<Str(<<"t", "h", "e">>), Space, Str(<<"d", "o", "c", "s">>)>>)>>)
PInclude == Para(<<Str(<<"[", "!INCLUDE">>), Space, Link(<<Str(<<"x">>)>>)>>)
PNote == Para(<<Str(<<"[!NOTE]">>), Space, Str(<<"t", "e", "x", "t">>)>>)

Blocks == {HName, HOptions, HSeeAlso, HNetCore, PCommand, PLinked, PSeeLink, PInclude,
           PNote}

LinesIdle ==
    /\ script = "none"
    /\ filename = <<>>
    /\ fs = <<>>
    /\ gitdirs = {}
    /\ original = <<>>
    /\ pc = "idle"
    /\ stack = <<>>
    /\ lines = <<>>
    /\ tmpExists = FALSE
    /\ tmp = <<>>
    /\ tmpOpen = FALSE
    /\ written = 0
    /\ err = ""

FilterInit ==
    /\ profile \in {"documentation", "toolset"}
    /\ doc \in SeqUpTo(Blocks, MaxBlocks)
    /\ doc0 = doc
    /\ passIn = doc
    /\ result1 = <<>>
    /\ pass = 1
    /\ pos = 1
    /\ fix_command_name = FALSE
    /\ fstate = "running"
    /\ ferr = ""
    /\ run = 1
    /\ LinesIdle

(***************************************************************************)
(* toJSONFilters: each filter of the list in turn walks the whole document, *)
(* one step of the model being the walk of one block and of what it holds.  *)
(***************************************************************************)
Visiting(f) ==
    /\ fstate = "running"
    /\ Filters(profile)[pass] = f
    /\ pos <= Len(doc)

\* the walk goes on with the block the filter returned, or stops where it raised
Visited(r) ==
    IF r.ok
    THEN /\ doc' = [doc EXCEPT ![pos] = r.block]
         /\ pos' = pos + 1
         /\ UNCHANGED <<fstate, ferr>>
    ELSE /\ fstate' = "failed"
         /\ ferr' = r.err
         /\ UNCHANGED <<doc, pos>>

FailOnIncludes ==
    /\ Visiting("fail_on_includes")
    /\ Visited(fail_on_includes(doc[pos]))
    /\ UNCHANGED <<profile, doc0, passIn, result1, pass, fix_command_name, run>>
    /\ UNCHANGED lineVars

RemoveIncludes ==
    /\ Visiting("remove_includes")
    /\ Visited(remove_includes(doc[pos]))
    /\ UNCHANGED <<profile, doc0, passIn, result1, pass, fix_command_name, run>>
    /\ UNCHANGED lineVars

PromoteAndCapitalizeSections ==
    /\ Visiting("promote_and_capitalize_sections")
    /\ Visited(promote_and_capitalize_sections(profile, doc[pos]))
    /\ UNCHANGED <<profile, doc0, passIn, result1, pass, fix_command_name, run>>
    /\ UNCHANGED lineVars

DemoteNetCore ==
    /\ Visiting("demote_net_core_1_2")
    /\ Visited(demote_net_core_1_2(doc[pos]))
    /\ UNCHANGED <<profile, doc0, passIn, result1, pass, fix_command_name, run>>
    /\ UNCHANGED lineVars

FixSpaceInCommandNames ==
    /\ Visiting("fix_space_in_command_names")
    /\ Visited(fix_space_in_command_names(fix_command_name, doc[pos]))
    /\ fix_command_name' = fix_space_in_command_names(fix_command_name, doc[pos]).flag
    /\ UNCHANGED <<profile, doc0, passIn, result1, pass, run>>
    /\ UNCHANGED lineVars

RemoveMarkers ==
    /\ Visiting("remove_markers")
    /\ Visited(remove_markers(doc[pos]))
    /\ UNCHANGED <<profile, doc0, passIn, result1, pass, fix_command_name, run>>
    /\ UNCHANGED lineVars

RemoveReferences ==
    /\ Visiting("remove_references")
    /\ Visited(remove_references(doc[pos]))
    /\ UNCHANGED <<profile, doc0, passIn, result1, pass, fix_command_name, run>>
    /\ UNCHANGED lineVars

\* a filter has walked the document: the next one starts on what it returned
NextFilter ==
    /\ fstate = "running"
    /\ pos > Len(doc)
    /\ pass < Len(Filters(profile))
    /\ pass' = pass + 1
    /\ pos' = 1
    /\ passIn' = doc
    /\ UNCHANGED <<profile, doc, doc0, result1, fix_command_name, fstate, ferr, run>>
    /\ UNCHANGED lineVars

\* the last filter has walked the document: the tree is written out
Finish ==
    /\ fstate = "running"
    /\ pos > Len(doc)
    /\ pass = Len(Filters(profile))
    /\ fstate' = "done"
    /\ result1' = IF run = 1 THEN doc ELSE result1
    /\ UNCHANGED <<profile, doc, doc0, passIn, pass, pos, fix_command_name, ferr, run>>
    /\ UNCHANGED lineVars

\* the filter is run again, as a new process, on the tree it wrote
Rerun ==
    /\ fstate = "done"
    /\ run = 1
    /\ run' = 2
    /\ fstate' = "running"
    /\ pass' = 1
    /\ pos' = 1
    /\ passIn' = doc
    /\ fix_command_name' = FALSE
    /\ UNCHANGED <<profile, doc, doc0, result1, ferr>>
    /\ UNCHANGED lineVars

FilterNext ==
    \/ FailOnIncludes
    \/ RemoveIncludes
    \/ PromoteAndCapitalizeSections
    \/ DemoteNetCore
    \/ FixSpaceInCommandNames
    \/ RemoveMarkers
    \/ RemoveReferences
    \/ NextFilter
    \/ Finish
    \/ Rerun

FilterSpec == FilterInit /\ [][FilterNext]_vars

(***************************************************************************)
(* Properties of the filters, checked under FilterSpec.                    *)
(***************************************************************************)
\* a Para whose first inline element is the text '[!INCLUDE'
IsIncludePara(b) ==
    b.t = "Para" /\ b.content # <<>> /\ b.content[1] = Str(<<"[", "!INCLUDE">>)

HasIncludePara(d) == \E j \in 1..Len(d) : IsIncludePara(d[j])

\* C4 as claimed: in both copies a tree with such a Para never comes out of
\* the filters.
C4_IncludeAlwaysFatal == HasIncludePara(doc0) => fstate # "done"

\* C4 as amended: in the documentation copy a tree with a Para whose first inline
\* is '[!INCLUDE' makes the first filter fail and no tree comes out; in the
\* toolset copy remove_includes replaces each such Para by a Para holding one
\* empty Str and the filters go on.
C4_IncludeFatalInDocumentation ==
    /\ (profile = "documentation" /\ HasIncludePara(doc0))
          => (fstate # "done" /\ pass = 1 /\ doc = doc0 /\ run = 1)
    /\ (profile = "toolset" /\ run = 1 /\ fstate = "done")
          => (/\ ~HasIncludePara(doc)
              /\ \A j \in 1..Len(doc0) :
                    IsIncludePara(doc0[j]) => doc[j] = Para(<<Str(<<>>)>>))

\* C4 witness: the documentation copy has failed on the Para after a Header
C4_Witness ==
    /\ profile = "documentation"
    /\ doc0 = <<HName, PInclude, PNote>>
    /\ fstate = "failed"
    /\ ferr = "AssertionError"
    /\ pos = 2

\* C5 as claimed: the filters applied to what they returned return it unchanged.
C5_Idempotent ==
    run = 2 => (fstate # "failed" /\ (fstate = "done" => doc = result1))

FixSpacePass ==
    /\ fstate = "running"
    /\ Filters(profile)[pass] = "fix_space_in_command_names"

\* the most recent Header before block j says 'name'
NameBefore(j) ==
    LET hs == {h \in 1..(j - 1) : doc[h].t = "Header"}
    IN  /\ hs # {}
        /\ header_text(doc[CHOOSE h \in hs : \A g \in hs : g <= h].content) = <<"n", "a", "m", "e">>

IsDotnetCode(x) == x.t = "Code" /\ starts_with_dotnet(x.c)

Rewritten(x) == Str(hyphenated(x.c))

\* C9 as claimed: in the Paras the filter has visited, a code span that begins
\* with 'dotnet ', wherever it is in the Para, has been rewritten if and only if the
\* most recent Header before it says 'name'.
C9_EveryCodeSpan ==
    FixSpacePass =>
        \A j \in 1..(pos - 1) : passIn[j].t = "Para" =>
            \A k \in 1..Len(passIn[j].content) :
                /\ IsDotnetCode(passIn[j].content[k]) =>
                      /\ NameBefore(j) => doc[j].content[k] = Rewritten(passIn[j].content[k])
                      /\ ~NameBefore(j) => doc[j].content[k] = passIn[j].content[k]
                /\ \A m \in 1..Len(passIn[j].content[k].label) :
                      IsDotnetCode(passIn[j].content[k].label[m]) =>
                          /\ NameBefore(j) => doc[j].content[k].label[m]
                                                = Rewritten(passIn[j].content[k].label[m])
                          /\ ~NameBefore(j) => doc[j].content[k].label[m]
                                                = passIn[j].content[k].label[m]

\* C9 as amended: a code span that begins with 'dotnet ' and is a direct element
\* of a Para has been rewritten if and only if the most recent Header before
\* it says 'name'; every other element, code spans inside a Link included, is
\* as it was; and the flag says whether the most recent Header visited says 'name'.
C9_DirectCodeSpan ==
    FixSpacePass =>
        /\ fix_command_name = NameBefore(pos)
        /\ \A j \in 1..(pos - 1) :
              /\ passIn[j].t = "Header" => doc[j] = passIn[j]
              /\ passIn[j].t = "Para" =>
                    /\ Len(doc[j].content) = Len(passIn[j].content)
                    /\ \A k \in 1..Len(passIn[j].content) :
                          doc[j].content[k] =
                              IF NameBefore(j) /\ IsDotnetCode(passIn[j].content[k])
                              THEN Rewritten(passIn[j].content[k])
                              ELSE passIn[j].content[k]

\* C9 witness: past a Name section and into the next section
C9_Witness ==
    /\ FixSpacePass
    /\ run = 1
    /\ doc0 = <<HName, PCommand, HOptions>>
    /\ pos = 4
    /\ ~fix_command_name
    /\ doc[2] = Para(<<Str(<<"d", "o", "t", "n", "e", "t", "-", "b", "u", "i", "l", "d">>), Space, Str(<<"-">>), Space, Code(<<"m", "s", "b", "u", "i", "l", "d">>)>>)

====
